---- MODULE Spec2Model ----
(***************************************************************************)
(* A model of the car-selling API of scripts/main.py: the token service,  *)
(* the credential store, the listing store and the image asset handling.  *)
(* Every request handler is an action (or a chain of actions, one per     *)
(* database or file-system effect); the last response is kept in resp.    *)
(* limits holds the bounds of the specification a behaviour belongs to:   *)
(* how many listings and how many files it creates.                        *)
(***************************************************************************)
EXTENDS Integers, Sequences, FiniteSets, TLC

VARIABLES now, users, cars, nextCar, files, nextFile, req, resp, exchanged, limits

vars == <<now, users, cars, nextCar, files, nextFile, req, resp, exchanged, limits>>

(***************************************************************************)
(* Bounds of the model.                                                    *)
(***************************************************************************)
\* how many listings are ever created (car ids 1..MaxCars)
MaxCars == 1
\* how many upload file names are ever generated (names 1..MaxFiles)
MaxFiles == 2
\* how many exchanges of one refresh token the history variable counts
MaxExchanged == 2
\* the instants the clock visits (minutes)
Instants == {0, 10, 1440}
Emails == {"a@x.com", "b@x.com"}
Usernames == {"ann", "bob"}
Passwords == {"pw1", "pw2"}
\* the request slots of the concurrent specification
Slots == {1, 2}

(***************************************************************************)
(* Program constants.                                                      *)
(***************************************************************************)
ACCESS_TOKEN_EXPIRE_MINUTES == 10
REFRESH_TOKEN_EXPIRE_DAYS == 1
DEFAULT_ACCESS_EXPIRE_MINUTES == 15
max_size == 5 * 1024 * 1024
allowed_types == {"image/jpeg", "image/jpg", "image/png", "image/webp"}

\* timedelta(days = d) in minutes
Days(d) == d * 24 * 60

(***************************************************************************)
(* Token service.  A token is its claim set and whether its signature was *)
(* made with SECRET_KEY; NoSub stands for a payload without "sub".        *)
(***************************************************************************)
NoSub == "<no sub>"
NoDelta == -1

create_access_token(sub, expires_delta, t) ==
    [sub |-> sub, type |-> "access", sig |-> TRUE,
     exp |-> IF expires_delta # NoDelta THEN t + expires_delta
             ELSE t + DEFAULT_ACCESS_EXPIRE_MINUTES]

create_refresh_token(sub, expires_delta, t) ==
    [sub |-> sub, type |-> "refresh", sig |-> TRUE,
     exp |-> IF expires_delta # NoDelta THEN t + expires_delta
             ELSE t + Days(REFRESH_TOKEN_EXPIRE_DAYS)]

\* a decode with verify_signature switched off
jwt_decode_unverified(tok, t) ==
    IF tok.exp <= t THEN "ExpiredSignatureError" ELSE "ok"

\* a decode that does not look at the exp claim
jwt_decode_noexp(tok, t) ==
    IF ~tok.sig THEN "PyJWTError" ELSE "ok"

\* jwt.decode: the signature first, then the exp claim (expired once exp <= now)
jwt_decode(tok, t) ==
    IF ~tok.sig THEN "PyJWTError"
    ELSE IF tok.exp <= t THEN "ExpiredSignatureError"
    ELSE "ok"

Fail(status, detail) == [ok |-> FALSE, status |-> status, detail |-> detail]

\* verify_token without the check of the type claim
verify_token_untyped(tok, t) ==
    LET d == jwt_decode(tok, t) IN
    IF d = "ExpiredSignatureError" THEN Fail(401, "Token expired")
    ELSE IF d = "PyJWTError" THEN Fail(401, "Could not validate credentials")
    ELSE IF tok.sub = NoSub THEN Fail(401, "Could not validate credentials")
    ELSE [ok |-> TRUE, email |-> tok.sub]

\* verify_token: the subject of an access token, or the 401 it raises
verify_token(tok, t) ==
    LET d == jwt_decode(tok, t) IN
    IF d = "ExpiredSignatureError" THEN Fail(401, "Token expired")
    ELSE IF d = "PyJWTError" THEN Fail(401, "Could not validate credentials")
    ELSE IF tok.type # "access" THEN Fail(401, "Invalid token type")
    ELSE IF tok.sub = NoSub THEN Fail(401, "Could not validate credentials")
    ELSE [ok |-> TRUE, email |-> tok.sub]

UserByEmail(email) == {u \in users : u.email = email}

\* get_current_user: the user of the bearer token, or the 401 it raises
get_current_user(tok, t) ==
    LET v == verify_token(tok, t) IN
    IF ~v.ok THEN v
    ELSE IF UserByEmail(v.email) = {} THEN Fail(401, "User not found")
    ELSE [ok |-> TRUE, user |-> CHOOSE u \in UserByEmail(v.email) : TRUE]

(***************************************************************************)
(* The tokens a client may present: every token the service can have      *)
(* issued at an instant of the model, and crafted ones (a bad signature,  *)
(* a payload without subject).                                             *)
(***************************************************************************)
\* instants before the model starts, at which the presented tokens may have been issued
IssueInstants == Instants \cup {0 - ACCESS_TOKEN_EXPIRE_MINUTES}

IssuedTokens ==
    {create_access_token(e, ACCESS_TOKEN_EXPIRE_MINUTES, t) : e \in Emails, t \in IssueInstants}
    \cup {create_refresh_token(e, Days(REFRESH_TOKEN_EXPIRE_DAYS), t) : e \in Emails, t \in IssueInstants}

CraftedTokens ==
    {[sub |-> "a@x.com", type |-> "access", sig |-> FALSE, exp |-> Days(3)],
     [sub |-> NoSub, type |-> "access", sig |-> TRUE, exp |-> Days(3)],
     [sub |-> NoSub, type |-> "refresh", sig |-> TRUE, exp |-> Days(3)]}

Tokens == IssuedTokens \cup CraftedTokens

NoTok == [sub |-> NoSub, type |-> "none", sig |-> FALSE, exp |-> 0]

(***************************************************************************)
(* Responses and requests in flight.                                       *)
(***************************************************************************)
NoBody == <<>>
Idle == [pc |-> "idle"]
NoArg == <<>>
NoResp == [op |-> "none", status |-> 0, detail |-> "", arg |-> NoArg, body |-> NoBody]

\* the response to request op with inputs arg
Resp(op, status, detail, arg, body) ==
    [op |-> op, status |-> status, detail |-> detail, arg |-> arg, body |-> body]

\* the response FastAPI gives for an HTTPException raised by a handler or dependency
Raise(op, f, arg) == Resp(op, f.status, f.detail, arg, NoBody)

\* the response FastAPI gives for an exception no handler catches
Unhandled(op, arg) == Resp(op, 500, "Internal Server Error", arg, NoBody)

\* pwd_context.hash / pwd_context.verify
get_password_hash(password) == <<"bcrypt", password>>
verify_password(plain, hashed) == hashed = get_password_hash(plain)

\* worker s is free and the previous response was delivered
Ready(s) == req[s] = Idle /\ resp = NoResp

\* worker s is at step pc of its request
At(s, pc) == req[s].pc = pc /\ resp = NoResp

\* the state after start-up: empty tables, an empty upload directory; lim bounds
\* how many listings and files a behaviour of the model creates
InitWith(lim) ==
    /\ now = 0
    /\ users = {}
    /\ cars = <<>>
    /\ nextCar = 1
    /\ files = {}
    /\ nextFile = 1
    /\ req = [s \in Slots |-> Idle]
    /\ resp = NoResp
    /\ exchanged = 0
    /\ limits = lim

Init == InitWith([cars |-> MaxCars, files |-> MaxFiles])

\* time passes
Tick ==
    /\ resp = NoResp
    /\ \E t \in Instants : t > now /\ now' = t
    /\ resp' = NoResp
    /\ UNCHANGED <<users, cars, nextCar, files, nextFile, req, exchanged, limits>>

\* the client takes the response
deliver ==
    /\ resp # NoResp
    /\ resp' = NoResp
    /\ UNCHANGED <<now, users, cars, nextCar, files, nextFile, req, exchanged, limits>>

(***************************************************************************)
(* Credential store: POST /register.                                       *)
(***************************************************************************)
\* uuid.uuid4() for a user: users are never deleted, so the count is fresh
NewUserId == Cardinality(users) + 1

\* a table without unique constraints
UserDB_unconstrained(email, username) == TRUE

\* the unique constraints of UserDB (username, email) at INSERT
UserDB_unique(email, username) ==
    \A u \in users : u.email # email /\ u.username # username

\* the status register raises when the confirmation differs
HTTP_MISMATCH == 404

\* register up to the existence check and the confirmation check
register(s, email, username, password, confirmed) ==
    LET arg == [email |-> email, username |-> username, mismatch |-> password # confirmed] IN
    /\ Ready(s)
    /\ IF UserByEmail(email) # {}
       THEN /\ resp' = Raise("register", Fail(400, "This email has already registered"), arg)
            /\ req' = req
       ELSE IF password # confirmed
       THEN /\ resp' = Raise("register", Fail(HTTP_MISMATCH, "This confirmed password does not match"), arg)
            /\ req' = req
       ELSE /\ req' = [req EXCEPT ![s] = [pc |-> "register_commit", arg |-> arg,
                                          hashed_password |-> get_password_hash(password)]]
            /\ resp' = NoResp
    /\ UNCHANGED <<now, users, cars, nextCar, files, nextFile, exchanged, limits>>

\* db.add(db_user); db.commit(): the INSERT, refused by a unique constraint
register_commit(s) ==
    LET r == req[s] IN
    /\ At(s, "register_commit")
    /\ req' = [req EXCEPT ![s] = Idle]
    /\ IF UserDB_unique(r.arg.email, r.arg.username)
       THEN LET u == [id |-> NewUserId, username |-> r.arg.username, email |-> r.arg.email,
                      hashed_password |-> r.hashed_password] IN
            /\ users' = users \cup {u}
            /\ resp' = Resp("register", 200, "", r.arg, [id |-> u.id, email |-> u.email])
       ELSE /\ users' = users
            /\ resp' = Unhandled("register", r.arg)
    /\ UNCHANGED <<now, cars, nextCar, files, nextFile, exchanged, limits>>

(***************************************************************************)
(* Token endpoints: POST /login, POST /access-token, POST /refresh-token, *)
(* GET /me.                                                                *)
(***************************************************************************)
TokenPair(email, t) ==
    [access_token |-> create_access_token(email, ACCESS_TOKEN_EXPIRE_MINUTES, t),
     refresh_token |-> create_refresh_token(email, Days(REFRESH_TOKEN_EXPIRE_DAYS), t)]

\* whether the credentials name a user and match its hash
authenticate(email, password) ==
    \E u \in UserByEmail(email) : verify_password(password, u.hashed_password)

\* a failure that tells an unknown email from a wrong password
login_failure_telling(email, password) ==
    IF UserByEmail(email) = {}
    THEN [ok |-> FALSE, status |-> 404, detail |-> "User not found", headers |-> <<>>]
    ELSE [ok |-> FALSE, status |-> 401, detail |-> "Incorrect Email or password",
          headers |-> <<"WWW-Authenticate", "Bearer">>]

\* the HTTPException login and get_access_token raise for credentials they refuse
login_failure(email, password) ==
    [ok |-> FALSE, status |-> 401, detail |-> "Incorrect Email or password",
     headers |-> <<"WWW-Authenticate", "Bearer">>]

\* the response of login and get_access_token to the credentials at instant t
issue_response(op, email, password, t) ==
    LET arg == [email |-> email, password |-> password]
        f == login_failure(email, password) IN
    IF ~authenticate(email, password)
    THEN Resp(op, f.status, f.detail, arg, [headers |-> f.headers])
    ELSE Resp(op, 200, "", arg, TokenPair(email, t))

\* the body shared by login and get_access_token
IssueFor(s, op, email, password) ==
    /\ Ready(s)
    /\ resp' = issue_response(op, email, password, now)
    /\ UNCHANGED <<now, users, cars, nextCar, files, nextFile, req, exchanged, limits>>

login(s, email, password) == IssueFor(s, "login", email, password)

get_access_token(s, email, password) == IssueFor(s, "access-token", email, password)

\* the refresh token whose exchanges the history variable exchanged follows
ProbeToken == create_refresh_token("a@x.com", Days(REFRESH_TOKEN_EXPIRE_DAYS), 0)

\* a refresh that blacklists the token it exchanged
refresh_outcome_single_use(tok, t) ==
    LET d == jwt_decode(tok, t) IN
    IF d = "ExpiredSignatureError" THEN Fail(401, "Refresh token expired")
    ELSE IF d = "PyJWTError" THEN Fail(401, "Could not validate refresh token")
    ELSE IF tok = ProbeToken /\ exchanged > 0 THEN Fail(401, "Could not validate refresh token")
    ELSE IF tok.type # "refresh" THEN Fail(401, "Invalid token type")
    ELSE IF tok.sub = NoSub THEN Fail(401, "Could not validate credentials")
    ELSE IF UserByEmail(tok.sub) = {} THEN Fail(401, "User not found")
    ELSE [ok |-> TRUE, pair |-> TokenPair(tok.sub, t)]

\* the outcome of refresh_token for a presented token: a pair, or the 401 raised
refresh_outcome(tok, t) ==
    LET d == jwt_decode(tok, t) IN
    IF d = "ExpiredSignatureError" THEN Fail(401, "Refresh token expired")
    ELSE IF d = "PyJWTError" THEN Fail(401, "Could not validate refresh token")
    ELSE IF tok.type # "refresh" THEN Fail(401, "Invalid token type")
    ELSE IF tok.sub = NoSub THEN Fail(401, "Could not validate credentials")
    ELSE IF UserByEmail(tok.sub) = {} THEN Fail(401, "User not found")
    ELSE [ok |-> TRUE, pair |-> TokenPair(tok.sub, t)]

refresh_token(s, tok) ==
    LET o == refresh_outcome(tok, now)
        arg == [tok |-> tok] IN
    /\ Ready(s)
    /\ resp' = IF o.ok THEN Resp("refresh-token", 200, "", arg, o.pair)
               ELSE Raise("refresh-token", o, arg)
    \* history: how often ProbeToken was exchanged (the program keeps no such state)
    /\ exchanged' = IF o.ok /\ tok = ProbeToken /\ exchanged < MaxExchanged
                    THEN exchanged + 1 ELSE exchanged
    /\ UNCHANGED <<now, users, cars, nextCar, files, nextFile, req, limits>>

read_users_me(s, tok) ==
    LET a == get_current_user(tok, now)
        arg == [tok |-> tok] IN
    /\ Ready(s)
    /\ resp' = IF a.ok THEN Resp("me", 200, "", arg, [id |-> a.user.id, email |-> a.user.email])
               ELSE Raise("me", a, arg)
    /\ UNCHANGED <<now, users, cars, nextCar, files, nextFile, req, exchanged, limits>>

(***************************************************************************)
(* Image references and the upload directory.  An image string is kept as *)
(* whether it starts with "/uploads/" and the rest of it: a generated     *)
(* file name (1, 2, ...), the empty string (EmptyName) or a foreign URL.   *)
(***************************************************************************)
EmptyName == 0
ForeignRest == 0 - 1
ExternalUrl == [uploads |-> FALSE, rest |-> ForeignRest]

\* f"/uploads/{unique_filename}"
UploadsUrl(name) == [uploads |-> TRUE, rest |-> name]

\* car.image and car.image.startswith("/uploads/")
startswith_uploads(image) == image.uploads

\* car.image.replace("/uploads/", "")
strip_uploads(image) == image.rest

\* UPLOAD_DIR / name, and Path.exists(): the empty name is the directory itself
path_exists(name) == name = EmptyName \/ name \in files

\* Path.unlink() raises on a directory and on a missing file
unlink_raises(name) == name = EmptyName \/ name \notin files

\* the checks with the size limit one byte too strict
validate_file_strict(file) ==
    IF file.content_type \notin allowed_types
    THEN Fail(400, "Invalid file type. Only JPEG, PNG, and WebP images are allowed.")
    ELSE IF file.size >= max_size
    THEN Fail(400, "File too large. Maximum size is 5MB.")
    ELSE [ok |-> TRUE]

\* the file type and size checks shared by the three upload handlers
validate_file(file) ==
    IF file.content_type \notin allowed_types
    THEN Fail(400, "Invalid file type. Only JPEG, PNG, and WebP images are allowed.")
    ELSE IF file.size > max_size
    THEN Fail(400, "File too large. Maximum size is 5MB.")
    ELSE [ok |-> TRUE]

NoFile == [content_type |-> "", size |-> 0 - 1]

(***************************************************************************)
(* Listing store.                                                          *)
(***************************************************************************)
\* a column that holds NULL, a JSON value null
Null == "<null>"

\* the columns of CarDB a CarUpdate body can set
CarUpdateFields == {"make", "price", "description", "image", "is_sold"}

\* a body taken as it came, unknown keys included
car_update_dict_unfiltered(body) == body

\* CarUpdate(**body).dict(exclude_unset=True): unknown keys are dropped
car_update_dict(body) == [f \in (DOMAIN body) \cap CarUpdateFields |-> body[f]]

\* the row as the session writes it back: the attributes set, over the row in the table
apply_update(row, loaded, upd) ==
    [f \in DOMAIN row |-> IF f \in DOMAIN upd /\ upd[f] # loaded[f] THEN upd[f] ELSE row[f]]

\* the form fields of update_car_with_image that are not None, with the image url
form_update(form, image_url) ==
    [f \in {g \in DOMAIN form : form[g] # <<>>} \cup {"image"} |->
        IF f = "image" THEN image_url ELSE form[f][1]]

\* CarDB(...) as create_car and upload_car_with_image build it
new_car(form, image, seller_id, t) ==
    [make |-> form.make, price |-> form.price, description |-> form.description,
     image |-> image, seller_id |-> seller_id, created_at |-> t, is_sold |-> FALSE]

\* POST /cars
create_car(s, tok, form) ==
    LET a == get_current_user(tok, now)
        arg == [tok |-> tok, car |-> nextCar] IN
    /\ Ready(s)
    /\ nextCar <= limits.cars
    /\ IF ~a.ok
       THEN /\ resp' = Raise("create_car", a, arg)
            /\ UNCHANGED <<cars, nextCar>>
       ELSE /\ cars' = (nextCar :> new_car(form, form.image, a.user.id, now)) @@ cars
            /\ nextCar' = nextCar + 1
            /\ resp' = Resp("create_car", 200, "", arg, NoBody)
    /\ UNCHANGED <<now, users, files, nextFile, req, exchanged, limits>>

\* GET /cars/{car_id}
get_car(s, id) ==
    LET arg == [car |-> id] IN
    /\ Ready(s)
    /\ resp' = IF id \notin DOMAIN cars THEN Raise("get_car", Fail(404, "Car not found"), arg)
               ELSE Resp("get_car", 200, "", arg, cars[id])
    /\ UNCHANGED <<now, users, cars, nextCar, files, nextFile, req, exchanged, limits>>

\* owned_car without the comparison of seller_id with the caller
owned_car_unchecked(tok, id, what) ==
    LET a == get_current_user(tok, now) IN
    IF ~a.ok THEN a
    ELSE IF id \notin DOMAIN cars THEN Fail(404, "Car not found")
    ELSE [ok |-> TRUE, user |-> a.user, car |-> cars[id]]

\* the lookup and the ownership check shared by update and delete
owned_car(tok, id, what) ==
    LET a == get_current_user(tok, now) IN
    IF ~a.ok THEN a
    ELSE IF id \notin DOMAIN cars THEN Fail(404, "Car not found")
    ELSE IF cars[id].seller_id # a.user.id THEN Fail(403, what)
    ELSE [ok |-> TRUE, user |-> a.user, car |-> cars[id]]

\* PUT /cars/{car_id} up to the setattr loop
update_car(s, tok, id, body) ==
    LET o == owned_car(tok, id, "Not authorized to update this car")
        arg == [tok |-> tok, car |-> id] IN
    /\ Ready(s)
    /\ IF ~o.ok
       THEN /\ resp' = Raise("update_car", o, arg)
            /\ req' = req
       ELSE /\ req' = [req EXCEPT ![s] = [pc |-> "update_car_commit", arg |-> arg, body |-> body,
                                          loaded |-> o.car, upd |-> car_update_dict(body)]]
            /\ resp' = NoResp
    /\ UNCHANGED <<now, users, cars, nextCar, files, nextFile, exchanged, limits>>

\* db.commit(); db.refresh(car): fails when the row is gone
update_car_commit(s) ==
    LET r == req[s]
        id == r.arg.car IN
    /\ At(s, "update_car_commit")
    /\ req' = [req EXCEPT ![s] = Idle]
    /\ IF id \notin DOMAIN cars
       THEN /\ cars' = cars
            /\ resp' = Unhandled("update_car", r.arg)
       ELSE /\ cars' = [cars EXCEPT ![id] = apply_update(cars[id], r.loaded, r.upd)]
            /\ resp' = Resp("update_car", 200, "", r.arg, NoBody)
    /\ UNCHANGED <<now, users, nextCar, files, nextFile, exchanged, limits>>

\* a delete that leaves the row in the table
delete_row_kept(id) == cars

\* db.delete(car): the row leaves the table
delete_row(id) == [c \in (DOMAIN cars) \ {id} |-> cars[c]]

\* DELETE /cars/{car_id}
delete_car(s, tok, id) ==
    LET o == owned_car(tok, id, "Not authorized to delete this car")
        arg == [tok |-> tok, car |-> id] IN
    /\ Ready(s)
    /\ IF ~o.ok
       THEN /\ resp' = Raise("delete_car", o, arg)
            /\ cars' = cars
       ELSE /\ cars' = delete_row(id)
            /\ resp' = Resp("delete_car", 200, "Car deleted successfully", arg, NoBody)
    /\ UNCHANGED <<now, users, nextCar, files, nextFile, req, exchanged, limits>>

(***************************************************************************)
(* PUT /cars/{car_id}/upload: one action per database or file effect.      *)
(***************************************************************************)
\* the request leaves with a response
Finish(s, r) ==
    /\ req' = [req EXCEPT ![s] = Idle]
    /\ resp' = r

\* the request goes on to its next step
Goto(s, r) ==
    /\ req' = [req EXCEPT ![s] = r]
    /\ resp' = NoResp

\* up to the validation of the file
update_car_with_image(s, tok, id, form, file) ==
    LET o == owned_car(tok, id, "Not authorized to update this car")
        v == validate_file(file)
        arg == [tok |-> tok, car |-> id, file |-> file] IN
    /\ Ready(s)
    /\ IF ~o.ok
       THEN /\ resp' = Raise("update_car_with_image", o, arg)
            /\ req' = req
       ELSE IF file # NoFile /\ ~v.ok
       THEN /\ resp' = Raise("update_car_with_image", v, arg)
            /\ req' = req
       ELSE IF file # NoFile
       THEN /\ nextFile <= limits.files
            /\ Goto(s, [pc |-> "uci_write", arg |-> arg, form |-> form, loaded |-> o.car,
                        upd |-> <<>>, new |-> <<>>, old |-> <<>>])
       ELSE Goto(s, [pc |-> "uci_commit", arg |-> arg, form |-> form, loaded |-> o.car,
                     upd |-> form_update(form, o.car.image), new |-> <<>>, old |-> <<>>])
    /\ UNCHANGED <<now, users, cars, nextCar, files, nextFile, exchanged, limits>>

\* open(file_path, "wb").write(contents); the old path and the new url
uci_write(s) ==
    LET r == req[s]
        new == nextFile
        old == IF startswith_uploads(r.loaded.image)
               THEN <<strip_uploads(r.loaded.image)>> ELSE <<>> IN
    /\ At(s, "uci_write")
    /\ files' = files \cup {new}
    /\ nextFile' = nextFile + 1
    /\ Goto(s, [r EXCEPT !.pc = "uci_commit", !.new = <<new>>, !.old = old,
                         !.upd = form_update(r.form, UploadsUrl(new))])
    /\ UNCHANGED <<now, users, cars, nextCar, exchanged, limits>>

\* where the handler goes once the commit succeeded
uci_after_commit(r) == IF r.old # <<>> THEN "uci_old_exists" ELSE "uci_return"

\* db.commit(); db.refresh(car): the database may fail, and fails when the row is gone
uci_commit(s, dbok) ==
    LET r == req[s]
        id == r.arg.car IN
    /\ At(s, "uci_commit")
    /\ IF dbok /\ id \in DOMAIN cars
       THEN /\ cars' = [cars EXCEPT ![id] = apply_update(cars[id], r.loaded, r.upd)]
            /\ Goto(s, [r EXCEPT !.pc = uci_after_commit(r), !.loaded = cars'[id]])
       ELSE /\ cars' = cars
            /\ Goto(s, [r EXCEPT !.pc = "uci_except"])
    /\ UNCHANGED <<now, users, nextCar, files, nextFile, exchanged, limits>>

\* old_image_path and old_image_path.exists()
uci_old_exists(s) ==
    LET r == req[s] IN
    /\ At(s, "uci_old_exists")
    /\ Goto(s, [r EXCEPT !.pc = IF path_exists(r.old[1]) THEN "uci_old_unlink" ELSE "uci_return"])
    /\ UNCHANGED <<now, users, cars, nextCar, files, nextFile, exchanged, limits>>

\* old_image_path.unlink()
uci_old_unlink(s) ==
    LET r == req[s] IN
    /\ At(s, "uci_old_unlink")
    /\ IF unlink_raises(r.old[1])
       THEN /\ files' = files
            /\ Goto(s, [r EXCEPT !.pc = "uci_except"])
       ELSE /\ files' = files \ {r.old[1]}
            /\ Goto(s, [r EXCEPT !.pc = "uci_return"])
    /\ UNCHANGED <<now, users, cars, nextCar, nextFile, exchanged, limits>>

\* return Car(...)
uci_return(s) ==
    LET r == req[s] IN
    /\ At(s, "uci_return")
    /\ Finish(s, Resp("update_car_with_image", 200, "", r.arg, NoBody))
    /\ UNCHANGED <<now, users, cars, nextCar, files, nextFile, exchanged, limits>>

\* an except branch that leaves the new file behind
except_unlink_skipped(new) == files

\* the files left once the except branch removed the new file
except_unlink(new) == IF new # <<>> /\ path_exists(new[1]) THEN files \ {new[1]} ELSE files

\* except Exception: remove the new file, raise 500
uci_except(s) ==
    LET r == req[s] IN
    /\ At(s, "uci_except")
    /\ files' = except_unlink(r.new)
    /\ Finish(s, Raise("update_car_with_image", Fail(500, "Failed to update car"), r.arg))
    /\ UNCHANGED <<now, users, cars, nextCar, nextFile, exchanged, limits>>

(***************************************************************************)
(* POST /cars/upload, POST /upload, DELETE /upload/{filename}.             *)
(***************************************************************************)
upload_car_with_image(s, tok, form, file) ==
    LET a == get_current_user(tok, now)
        v == validate_file(file)
        arg == [tok |-> tok, file |-> file] IN
    /\ Ready(s)
    /\ IF ~a.ok
       THEN /\ resp' = Raise("upload_car_with_image", a, arg)
            /\ req' = req
       ELSE IF ~v.ok
       THEN /\ resp' = Raise("upload_car_with_image", v, arg)
            /\ req' = req
       ELSE /\ nextFile <= limits.files
            /\ nextCar <= limits.cars
            /\ Goto(s, [pc |-> "ucw_write", arg |-> arg, form |-> form, user |-> a.user.id, new |-> <<>>])
    /\ UNCHANGED <<now, users, cars, nextCar, files, nextFile, exchanged, limits>>

\* open(file_path, "wb").write(contents)
ucw_write(s) ==
    LET r == req[s] IN
    /\ At(s, "ucw_write")
    /\ files' = files \cup {nextFile}
    /\ nextFile' = nextFile + 1
    /\ Goto(s, [r EXCEPT !.pc = "ucw_commit", !.new = <<nextFile>>])
    /\ UNCHANGED <<now, users, cars, nextCar, exchanged, limits>>

\* db.add(db_car); db.commit(); db.refresh(db_car); return Car(...)
ucw_commit(s, dbok) ==
    LET r == req[s] IN
    /\ At(s, "ucw_commit")
    /\ IF dbok /\ nextCar <= limits.cars
       THEN /\ cars' = (nextCar :> new_car(r.form, UploadsUrl(r.new[1]), r.user, now)) @@ cars
            /\ nextCar' = nextCar + 1
            /\ Finish(s, Resp("upload_car_with_image", 200, "", r.arg, NoBody))
       ELSE /\ UNCHANGED <<cars, nextCar>>
            /\ Goto(s, [r EXCEPT !.pc = "ucw_except"])
    /\ UNCHANGED <<now, users, files, nextFile, exchanged, limits>>

\* except Exception: remove the file, raise 500
ucw_except(s) ==
    LET r == req[s] IN
    /\ At(s, "ucw_except")
    /\ files' = except_unlink(r.new)
    /\ Finish(s, Raise("upload_car_with_image", Fail(500, "Failed to create car"), r.arg))
    /\ UNCHANGED <<now, users, cars, nextCar, nextFile, exchanged, limits>>

\* POST /upload
upload_car_image(s, tok, file) ==
    LET a == get_current_user(tok, now)
        v == validate_file(file)
        arg == [tok |-> tok, file |-> file] IN
    /\ Ready(s)
    /\ IF ~a.ok
       THEN /\ resp' = Raise("upload_car_image", a, arg)
            /\ UNCHANGED <<files, nextFile>>
       ELSE IF ~v.ok
       THEN /\ resp' = Raise("upload_car_image", v, arg)
            /\ UNCHANGED <<files, nextFile>>
       ELSE /\ nextFile <= limits.files
            /\ files' = files \cup {nextFile}
            /\ nextFile' = nextFile + 1
            /\ resp' = Resp("upload_car_image", 200, "Image uploaded successfully", arg,
                            [filename |-> nextFile])
    /\ UNCHANGED <<now, users, cars, nextCar, req, exchanged, limits>>

\* DELETE /upload/{filename}
delete_car_image(s, tok, name) ==
    LET a == get_current_user(tok, now)
        arg == [tok |-> tok, filename |-> name] IN
    /\ Ready(s)
    /\ IF ~a.ok
       THEN /\ resp' = Raise("delete_car_image", a, arg)
            /\ files' = files
       ELSE IF ~path_exists(name)
       THEN /\ resp' = Raise("delete_car_image", Fail(404, "Image not found"), arg)
            /\ files' = files
       ELSE /\ files' = files \ {name}
            /\ resp' = Resp("delete_car_image", 200, "deleted successfully", arg, NoBody)
    /\ UNCHANGED <<now, users, cars, nextCar, nextFile, req, exchanged, limits>>

(***************************************************************************)
(* The inputs the requests are drawn from.                                 *)
(***************************************************************************)
UsernameOf(email) == IF email = "a@x.com" THEN "ann" ELSE "bob"

FileNames == 1..MaxFiles
CarIds == 1..MaxCars

\* bearer tokens for the listing endpoints: a valid access token per user and a
\* refresh token
BearerTokens ==
    {create_access_token(e, ACCESS_TOKEN_EXPIRE_MINUTES, 0) : e \in Emails}
    \cup {create_refresh_token("a@x.com", Days(REFRESH_TOKEN_EXPIRE_DAYS), 0)}

\* image strings a client sends in a JSON body
ImageInputs == {ExternalUrl, UploadsUrl(EmptyName)}

CarForms ==
    {[make |-> "Toyota", price |-> 25000, description |-> "Well maintained", image |-> i] :
        i \in ImageInputs}

\* the multipart form of POST /cars/upload
UploadForms == {[make |-> "Toyota", price |-> 25000, description |-> "Well maintained"]}

\* JSON bodies of PUT /cars/{id}
UpdateBodies == {[price |-> 24000], [image |-> UploadsUrl(EmptyName)]}

\* multipart forms of PUT /cars/{id}/upload: a field not sent is None (<<>>)
UpdateForms ==
    {[make |-> <<>>, price |-> <<>>, description |-> <<>>, is_sold |-> <<>>],
     [make |-> <<>>, price |-> <<24000>>, description |-> <<>>, is_sold |-> <<>>]}

FileInputs ==
    {[content_type |-> "image/png", size |-> max_size],
     [content_type |-> "image/png", size |-> max_size + 1],
     [content_type |-> "text/plain", size |-> 1024]}

(***************************************************************************)
(* Specifications.                                                         *)
(***************************************************************************)
\* the listing store and the image assets, one request at a time (one worker)
Next ==
    \/ deliver
    \/ \E e \in Emails : register(1, e, UsernameOf(e), "pw1", "pw1")
    \/ register_commit(1)
    \/ \E tok \in BearerTokens, form \in CarForms : create_car(1, tok, form)
    \/ \E id \in CarIds : get_car(1, id)
    \/ \E tok \in BearerTokens, id \in CarIds : delete_car(1, tok, id)
    \/ \E tok \in BearerTokens, file \in FileInputs : upload_car_image(1, tok, file)
    \/ \E tok \in BearerTokens, name \in FileNames : delete_car_image(1, tok, name)
    \/ \E tok \in BearerTokens, id \in CarIds, body \in UpdateBodies : update_car(1, tok, id, body)
    \/ update_car_commit(1)
    \/ \E tok \in BearerTokens, id \in CarIds, form \in UpdateForms, file \in FileInputs \cup {NoFile} :
          update_car_with_image(1, tok, id, form, file)
    \/ uci_write(1)
    \/ \E dbok \in BOOLEAN : uci_commit(1, dbok)
    \/ uci_old_exists(1)
    \/ uci_old_unlink(1)
    \/ uci_return(1)
    \/ uci_except(1)
    \/ \E tok \in BearerTokens, form \in UploadForms, file \in FileInputs :
          upload_car_with_image(1, tok, form, file)
    \/ ucw_write(1)
    \/ \E dbok \in BOOLEAN : ucw_commit(1, dbok)
    \/ ucw_except(1)

Spec == Init /\ [][Next]_vars

(***************************************************************************)
(* The token service and the credential store, with the clock running and *)
(* two workers.                                                            *)
(***************************************************************************)
\* the worker that takes the next request
FreeWorker == IF req[1] = Idle THEN 1 ELSE 2

AuthFiles == {[content_type |-> "image/jpeg", size |-> 1024]}

NextAuth ==
    \/ deliver
    \/ Tick
    \/ \E e \in Emails, u \in Usernames, c \in Passwords : register(FreeWorker, e, u, "pw1", c)
    \/ \E s \in Slots : register_commit(s)
    \/ \E e \in Emails, p \in Passwords : login(FreeWorker, e, p)
    \/ \E e \in Emails, p \in Passwords : get_access_token(FreeWorker, e, p)
    \/ \E tok \in Tokens : refresh_token(FreeWorker, tok)
    \/ \E tok \in Tokens : read_users_me(FreeWorker, tok)
    \/ \E tok \in Tokens, file \in AuthFiles : upload_car_image(FreeWorker, tok, file)

SpecAuth == Init /\ [][NextAuth]_vars

(***************************************************************************)
(* Partial updates: one owner, bodies and forms that set, null out and    *)
(* leave out fields, and keys CarUpdate does not know.                     *)
(***************************************************************************)
OwnerToken == create_access_token("a@x.com", ACCESS_TOKEN_EXPIRE_MINUTES, 0)

OwnerForms == {[make |-> "Toyota", price |-> 25000, description |-> "Well maintained",
                image |-> ExternalUrl]}

\* JSON bodies of PUT /cars/{id}: null is a value that was sent
RichBodies ==
    {<<>>,
     [price |-> 24000],
     [description |-> Null],
     [description |-> "Price reduced", is_sold |-> TRUE],
     [is_sold |-> FALSE, seller_id |-> 2, created_at |-> 1]}

\* multipart forms of PUT /cars/{id}/upload
RichForms ==
    {[make |-> <<>>, price |-> <<>>, description |-> <<>>, is_sold |-> <<>>],
     [make |-> <<>>, price |-> <<24000>>, description |-> <<>>, is_sold |-> <<>>],
     [make |-> <<"Honda">>, price |-> <<>>, description |-> <<"Price reduced">>, is_sold |-> <<FALSE>>]}

OwnerFiles == {NoFile, [content_type |-> "image/webp", size |-> 1024]}

NextUpdate ==
    \/ deliver
    \/ Tick
    \/ register(1, "a@x.com", "ann", "pw1", "pw1")
    \/ register_commit(1)
    \/ \E form \in OwnerForms : create_car(1, OwnerToken, form)
    \/ \E id \in CarIds : get_car(1, id)
    \/ \E id \in CarIds, body \in RichBodies : update_car(1, OwnerToken, id, body)
    \/ update_car_commit(1)
    \/ \E id \in CarIds, form \in RichForms, file \in OwnerFiles :
          update_car_with_image(1, OwnerToken, id, form, file)
    \/ uci_write(1)
    \/ \E dbok \in BOOLEAN : uci_commit(1, dbok)
    \/ uci_old_exists(1)
    \/ uci_old_unlink(1)
    \/ uci_return(1)
    \/ uci_except(1)

SpecUpdate == Init /\ [][NextUpdate]_vars

(***************************************************************************)
(* The claims.  A response names the request that ended in the step, so   *)
(* resp' in an action formula speaks of the request the step completed.    *)
(***************************************************************************)
\* a validly signed, unexpired access token with a subject
ValidAccess(tok) == tok.sig /\ tok.type = "access" /\ tok.exp > now /\ tok.sub # NoSub

\* the bearer of tok is a registered user other than the seller of listing id
NonOwner(tok, id) ==
    /\ ValidAccess(tok)
    /\ id \in DOMAIN cars
    /\ \E u \in users : u.email = tok.sub /\ u.id # cars[id].seller_id

\* the bearer of tok is the seller of listing id
Owner(tok, id) ==
    /\ ValidAccess(tok)
    /\ id \in DOMAIN cars
    /\ \E u \in users : u.email = tok.sub /\ u.id = cars[id].seller_id

\* the image is a file of the upload store
StoredAsset(image) == image.uploads /\ image.rest \in files

UpdateOps == {"update_car", "update_car_with_image"}

(* C1: an update of a listing (PUT /cars/{id} or PUT /cars/{id}/upload) by an
   authenticated user who is not its seller answers 403 and changes neither the
   listings nor the upload store. *)
C1_NonOwnerUpdateForbidden ==
    [][(resp'.op \in UpdateOps /\ NonOwner(resp'.arg.tok, resp'.arg.car))
          => (resp'.status = 403 /\ cars' = cars /\ files' = files /\ nextFile' = nextFile)]_vars

\* a non-owner's update was answered 403
C1_Witness ==
    /\ resp.op \in UpdateOps
    /\ resp.status = 403
    /\ NonOwner(resp.arg.tok, resp.arg.car)

(* C2: DELETE /cars/{id} by a user other than the seller answers 403 and leaves
   the listing in place; by the seller it succeeds and removes the listing; a
   removed listing never comes back, and GET /cars/{id} answers 404 exactly for
   the ids that are not in the store. *)
C2_DeleteOwnership ==
    [][/\ (resp'.op = "delete_car" /\ NonOwner(resp'.arg.tok, resp'.arg.car))
            => (resp'.status = 403 /\ cars' = cars)
       /\ (resp'.op = "delete_car" /\ Owner(resp'.arg.tok, resp'.arg.car))
            => (resp'.status = 200 /\ resp'.arg.car \notin DOMAIN cars')
       /\ \A id \in CarIds : (id < nextCar /\ id \notin DOMAIN cars) => id \notin DOMAIN cars'
       /\ resp'.op = "get_car"
            => ((resp'.status = 404) <=> (resp'.arg.car \notin DOMAIN cars))
       /\ resp'.op = "get_car" => resp'.status \in {200, 404}]_vars

\* a listing that was created and deleted is asked for and answered 404
C2_Witness ==
    /\ resp.op = "get_car"
    /\ resp.status = 404
    /\ resp.arg.car < nextCar

(* C3: once DELETE /cars/{id} succeeded for a listing whose image is a file of
   the upload store, that file is no longer in the store. *)
C3_DeleteRemovesAsset ==
    [][(/\ resp'.op = "delete_car"
        /\ resp'.status = 200
        /\ StoredAsset(cars[resp'.arg.car].image))
          => cars[resp'.arg.car].image.rest \notin files']_vars

UciSteps == {"uci_write", "uci_commit", "uci_old_exists", "uci_old_unlink", "uci_return", "uci_except"}

(* C4: PUT /cars/{id}/upload with a file writes the new asset, commits the
   reference, then deletes the old asset: a request that succeeds leaves the
   listing referencing the new file, which is in the store, and the old file
   gone; and no step of such a request takes from the store the file that the
   committed listing references. *)
C4_ReplacementOrder ==
    [][\A s \in Slots :
          req[s].pc \in UciSteps =>
             LET r == req[s]
                 id == r.arg.car IN
             /\ (r.pc = "uci_return" /\ r.new # <<>>)
                   => /\ id \in DOMAIN cars'
                      /\ cars'[id].image = UploadsUrl(r.new[1])
                      /\ r.new[1] \in files'
                      /\ r.old # <<>> => r.old[1] \notin files'
             /\ (id \in DOMAIN cars' /\ StoredAsset(cars'[id].image))
                   => cars'[id].image.rest \in files']_vars

\* the operations behind the bearer-token dependency that the token checks run for
BearerOps == {"me", "upload_car_image"}

\* the operations that issue a token pair
IssuingOps == {"login", "access-token", "refresh-token"}

\* the request that ended in the step did nothing and returned nothing
NothingDone ==
    /\ resp'.body = NoBody
    /\ UNCHANGED <<users, cars, nextCar, files, nextFile>>

(* C5 as stated: a signed token of type "refresh" presented to a bearer-protected
   endpoint, and a signed token of type "access" presented to POST
   /refresh-token, is always answered 401 "Invalid token type". *)
C5_WrongTypeAlwaysInvalidType ==
    [][/\ (resp'.op \in BearerOps /\ resp'.arg.tok.sig /\ resp'.arg.tok.type = "refresh")
            => (resp'.status = 401 /\ resp'.detail = "Invalid token type")
       /\ (resp'.op = "refresh-token" /\ resp'.arg.tok.sig /\ resp'.arg.tok.type = "access")
            => (resp'.status = 401 /\ resp'.detail = "Invalid token type")]_vars

(* C5 amended: a signed token of the wrong type is always rejected with 401, the
   operation is not performed and no pair is issued; the detail is "Invalid token
   type" when the token has not expired, and the endpoint's expiry detail ("Token
   expired", "Refresh token expired") when it has. *)
C5_WrongTypeRejected ==
    [][/\ (resp'.op \in BearerOps /\ resp'.arg.tok.sig /\ resp'.arg.tok.type = "refresh")
            => /\ resp'.status = 401
               /\ NothingDone
               /\ resp'.detail = IF resp'.arg.tok.exp <= now THEN "Token expired"
                                 ELSE "Invalid token type"
       /\ (resp'.op = "refresh-token" /\ resp'.arg.tok.sig /\ resp'.arg.tok.type = "access")
            => /\ resp'.status = 401
               /\ NothingDone
               /\ resp'.detail = IF resp'.arg.tok.exp <= now THEN "Refresh token expired"
                                 ELSE "Invalid token type"]_vars

\* an unexpired refresh token was presented to a bearer-protected endpoint and refused for its type
C5_Witness ==
    /\ resp.op \in BearerOps
    /\ resp.arg.tok.type = "refresh"
    /\ resp.arg.tok.sig
    /\ resp.arg.tok.exp > now
    /\ resp.status = 401
    /\ resp.detail = "Invalid token type"

(* C6: the access token that /login, /access-token and /refresh-token issue
   expires ACCESS_TOKEN_EXPIRE_MINUTES after the instant of issue; a signed access
   token presented after its expiry instant is answered 401 "Token expired" and the
   protected operation is not performed; presented before that instant by an
   existing user it is accepted. *)
C6_AccessTokenExpiry ==
    [][/\ (resp'.op \in IssuingOps /\ resp'.status = 200)
            => /\ resp'.body.access_token.type = "access"
               /\ resp'.body.access_token.exp = now + ACCESS_TOKEN_EXPIRE_MINUTES
       /\ (resp'.op \in BearerOps /\ resp'.arg.tok.sig /\ resp'.arg.tok.type = "access"
             /\ now > resp'.arg.tok.exp)
            => /\ resp'.status = 401
               /\ resp'.detail = "Token expired"
               /\ NothingDone
       /\ (resp'.op \in BearerOps /\ resp'.arg.tok.sig /\ resp'.arg.tok.type = "access"
             /\ now < resp'.arg.tok.exp /\ UserByEmail(resp'.arg.tok.sub) # {})
            => resp'.status = 200]_vars

\* an access token issued at an instant of the run was refused after its expiry
C6_Witness ==
    /\ resp.op = "upload_car_image"
    /\ resp.arg.tok = create_access_token("a@x.com", ACCESS_TOKEN_EXPIRE_MINUTES, 0)
    /\ now > resp.arg.tok.exp
    /\ resp.status = 401
    /\ resp.detail = "Token expired"
    /\ UserByEmail("a@x.com") # {}

\* a signed, unexpired refresh token with a subject
ValidRefresh(tok) == tok.sig /\ tok.type = "refresh" /\ tok.exp > now /\ tok.sub # NoSub

(* C7: POST /refresh-token with an unexpired refresh token of an existing user
   answers 200 with a fresh access/refresh pair for the same subject, whatever was
   exchanged before; with a subject that is no user it answers 401 "User not
   found" and issues nothing; it never changes stored state. *)
C7_RefreshMintsPair ==
    [][resp'.op = "refresh-token" =>
          /\ UNCHANGED <<users, cars, nextCar, files, nextFile>>
          /\ (ValidRefresh(resp'.arg.tok) /\ UserByEmail(resp'.arg.tok.sub) # {})
                => /\ resp'.status = 200
                   /\ resp'.body = [access_token |-> [sub |-> resp'.arg.tok.sub, type |-> "access",
                                                      sig |-> TRUE,
                                                      exp |-> now + ACCESS_TOKEN_EXPIRE_MINUTES],
                                    refresh_token |-> [sub |-> resp'.arg.tok.sub, type |-> "refresh",
                                                       sig |-> TRUE,
                                                       exp |-> now + Days(REFRESH_TOKEN_EXPIRE_DAYS)]]
          /\ (ValidRefresh(resp'.arg.tok) /\ UserByEmail(resp'.arg.tok.sub) = {})
                => /\ resp'.status = 401
                   /\ resp'.detail = "User not found"
                   /\ resp'.body = NoBody]_vars

\* the same refresh token was exchanged MaxExchanged times, the last one answered 200
C7_Witness ==
    /\ exchanged = MaxExchanged
    /\ resp.op = "refresh-token"
    /\ resp.arg.tok = ProbeToken
    /\ resp.status = 200

(* C8: a registration whose confirmation differs from the password is answered
   400 and the user store is unchanged. *)
C8_MismatchIs400 ==
    [][(resp'.op = "register" /\ resp'.arg.mismatch)
          => (resp'.status = 400 /\ users' = users)]_vars

(* C9: no two users share an email, whatever registrations run and however they
   interleave; a stored user record never changes; a registration of an email
   that is already stored fails and stores nothing, with 400 when the handler's
   own lookup finds the email. *)
C9_OneUserPerEmail ==
    [][/\ \A u, v \in users' : u.email = v.email => u = v
       /\ users \subseteq users'
       /\ (resp'.op = "register" /\ UserByEmail(resp'.arg.email) # {})
            => /\ users' = users
               /\ resp'.status \in {400, 500}
               /\ req' = req => resp'.status = 400]_vars

\* two registrations of one email passed the lookup together: one user is stored, the other request failed
C9_Witness ==
    /\ resp.op = "register"
    /\ resp.status = 500
    /\ \E u \in UserByEmail(resp.arg.email) : u.username = resp.arg.username
    /\ Cardinality(UserByEmail(resp.arg.email)) = 1

\* the fields the request at a commit step provided
ProvidedFields(r) ==
    IF r.pc = "update_car_commit" THEN DOMAIN r.body
    ELSE IF r.pc = "uci_commit"
    THEN {f \in DOMAIN r.form : r.form[f] # <<>>} \cup (IF r.new # <<>> THEN {"image"} ELSE {})
    ELSE {}

(* C10: a listing stays in the store under its id; its seller_id and created_at
   never change; any other field changes only in the commit of an update of that
   listing whose request provided the field; and the fields a PUT /cars/{id}
   body provided have the value it gave once the update succeeded. *)
C10_PartialUpdate ==
    [][\A id \in DOMAIN cars :
          /\ id \in DOMAIN cars'
          /\ cars'[id].seller_id = cars[id].seller_id
          /\ cars'[id].created_at = cars[id].created_at
          /\ \A f \in DOMAIN cars[id] :
                cars'[id][f] # cars[id][f] =>
                   \E s \in Slots : /\ req[s].pc \in {"update_car_commit", "uci_commit"}
                                    /\ req[s].arg.car = id
                                    /\ f \in ProvidedFields(req[s])
          /\ \A s \in Slots :
                (req[s].pc = "update_car_commit" /\ req[s].arg.car = id
                   /\ resp'.op = "update_car" /\ resp'.status = 200)
                => \A f \in (DOMAIN req[s].body) \cap CarUpdateFields :
                      cars'[id][f] = req[s].body[f]]_vars

\* an update that gave only the price succeeded: the price is the new one, the rest as created
C10_Witness ==
    /\ resp.op \in UpdateOps
    /\ resp.status = 200
    /\ resp.arg.car \in DOMAIN cars
    /\ cars[resp.arg.car].price = 24000
    /\ cars[resp.arg.car].make = "Toyota"
    /\ cars[resp.arg.car].description = "Well maintained"
    /\ cars[resp.arg.car].is_sold = FALSE

(***************************************************************************)
(* Creation of listings: every token a client may present, time passing,  *)
(* and room for a listing to be created after another was deleted.         *)
(***************************************************************************)
\* how many listings a behaviour of SpecCreate creates
MaxCreated == 2

CreatedIds == 1..MaxCreated

NextCreate ==
    \/ deliver
    \/ Tick
    \/ \E e \in Emails : register(1, e, UsernameOf(e), "pw1", "pw1")
    \/ register_commit(1)
    \/ \E tok \in Tokens, form \in OwnerForms : create_car(1, tok, form)
    \/ \E tok \in Tokens, form \in UploadForms, file \in AuthFiles :
          upload_car_with_image(1, tok, form, file)
    \/ ucw_write(1)
    \/ \E dbok \in BOOLEAN : ucw_commit(1, dbok)
    \/ ucw_except(1)
    \/ \E tok \in BearerTokens, id \in CreatedIds : delete_car(1, tok, id)

SpecCreate == InitWith([cars |-> MaxCreated, files |-> MaxFiles]) /\ [][NextCreate]_vars

CreateOps == {"create_car", "upload_car_with_image"}

\* the users a token's subject names
CallerOf(tok) == {u \in users : u.email = tok.sub}

\* the tokens of the requests that may store a listing in this step
CreatingTokens ==
    (IF resp'.op = "create_car" THEN {resp'.arg.tok} ELSE {})
    \cup {req[s].arg.tok : s \in {w \in Slots : req[w].pc = "ucw_commit"}}

(* C11: POST /cars and POST /cars/upload presented without a valid access token
   of an existing user answer 401, are not taken up and create nothing; a listing
   enters the store
   only in a step of a request whose token is a signed access token of an
   existing user, under an id no listing has or had, with is_sold false and the
   caller's id as seller_id; every listing's seller_id is the id of a user. *)
C11_CreationAuthenticated ==
    [][/\ \A s \in Slots :
             (req[s] = Idle /\ req'[s].pc = "ucw_write")
                => (ValidAccess(req'[s].arg.tok) /\ CallerOf(req'[s].arg.tok) # {})
       /\ (resp'.op \in CreateOps /\ req' = req
             /\ ~(ValidAccess(resp'.arg.tok) /\ CallerOf(resp'.arg.tok) # {}))
            => (resp'.status = 401 /\ cars' = cars /\ files' = files)
       /\ \A id \in DOMAIN cars : id < nextCar
       /\ \A id \in (DOMAIN cars') \ (DOMAIN cars) :
             /\ id = nextCar
             /\ nextCar' > id
             /\ cars'[id].is_sold = FALSE
             /\ \E tok \in CreatingTokens :
                   /\ tok.sig /\ tok.type = "access"
                   /\ resp'.op = "create_car" => tok.exp > now
                   /\ \E u \in CallerOf(tok) : cars'[id].seller_id = u.id
       /\ \A id \in DOMAIN cars' : \E u \in users' : u.id = cars'[id].seller_id]_vars

\* a second listing was created after the first, each with a registered seller
C11_Witness ==
    /\ resp.op \in CreateOps
    /\ resp.status = 200
    /\ nextCar = MaxCreated + 1
    /\ \E id \in DOMAIN cars : \E u \in CallerOf(resp.arg.tok) : cars[id].seller_id = u.id

LoginOps == {"login", "access-token"}

\* what the client sees of a response: status, detail, headers or body
Visible(r) == [status |-> r.status, detail |-> r.detail, body |-> r.body]

(* C12: the response of POST /login and POST /access-token to an email that is
   not registered is the same in status, detail and headers as the response, in
   the same state, to any registered email with a wrong password; it is 401. *)
C12_UndifferentiatedFailure ==
    [][(resp'.op \in LoginOps /\ UserByEmail(resp'.arg.email) = {})
          => /\ resp'.status = 401
             /\ \A e \in Emails, p \in Passwords :
                   (UserByEmail(e) # {} /\ ~authenticate(e, p))
                      => Visible(issue_response(resp'.op, e, p, now)) = Visible(resp')]_vars

\* a login with an unregistered email was refused while another email is registered
C12_Witness ==
    /\ resp.op \in LoginOps
    /\ resp.status = 401
    /\ UserByEmail(resp.arg.email) = {}
    /\ \E e \in Emails, p \in Passwords : UserByEmail(e) # {} /\ ~authenticate(e, p)

(***************************************************************************)
(* Storing images: files of every allowed type, of types that are not     *)
(* allowed, of the largest size allowed and one byte more.                 *)
(***************************************************************************)
StoredFiles ==
    {[content_type |-> "image/jpeg", size |-> 1024],
     [content_type |-> "image/jpg", size |-> 0],
     [content_type |-> "image/png", size |-> max_size],
     [content_type |-> "image/webp", size |-> max_size],
     [content_type |-> "image/webp", size |-> max_size + 1],
     [content_type |-> "image/gif", size |-> 1024],
     [content_type |-> "text/plain", size |-> max_size + 1]}

NextFiles ==
    \/ deliver
    \/ \E e \in Emails : register(1, e, UsernameOf(e), "pw1", "pw1")
    \/ register_commit(1)
    \/ \E tok \in BearerTokens, form \in OwnerForms : create_car(1, tok, form)
    \/ \E tok \in BearerTokens, file \in StoredFiles : upload_car_image(1, tok, file)
    \/ \E tok \in BearerTokens, form \in UploadForms, file \in StoredFiles :
          upload_car_with_image(1, tok, form, file)
    \/ ucw_write(1)
    \/ \E dbok \in BOOLEAN : ucw_commit(1, dbok)
    \/ ucw_except(1)
    \/ \E tok \in BearerTokens, id \in CarIds, form \in UpdateForms, file \in StoredFiles \cup {NoFile} :
          update_car_with_image(1, tok, id, form, file)
    \/ uci_write(1)
    \/ \E dbok \in BOOLEAN : uci_commit(1, dbok)
    \/ uci_old_exists(1)
    \/ uci_old_unlink(1)
    \/ uci_return(1)
    \/ uci_except(1)

SpecFiles == Init /\ [][NextFiles]_vars

StoreOps == {"upload_car_image", "upload_car_with_image", "update_car_with_image"}

\* the statuses of a request refused before its file is looked at
RefusedEarlier == {401, 403, 404}

\* the request that ended in this step was checked and refused in this step, and left no trace
RefusedWith(detail) ==
    /\ resp'.status \in RefusedEarlier \cup {400}
    /\ resp'.status = 400 => resp'.detail = detail
    /\ UNCHANGED <<cars, nextCar, files, nextFile, req>>

UnsupportedType(file) == file # NoFile /\ file.content_type \notin allowed_types
TooLarge(file) == file # NoFile /\ file.content_type \in allowed_types /\ file.size > max_size

\* the caller may store a file with the request: a user, and for an update the seller
MayStore(op, arg) ==
    IF op = "update_car_with_image" THEN Owner(arg.tok, arg.car)
    ELSE ValidAccess(arg.tok) /\ CallerOf(arg.tok) # {}

(* C13: POST /upload, POST /cars/upload and PUT /cars/{id}/upload with a file
   whose content type is not an allowed one are refused, with 400 UnsupportedType
   when the caller may store a file; with an allowed type and more than max_size
   bytes they are refused, with 400 TooLarge; a refused request writes no file
   and creates or changes no listing; a file of an allowed type and at most
   max_size bytes is never refused with 400, and only such a file is stored. *)
C13_FileValidation ==
    [][/\ (resp'.op \in StoreOps /\ UnsupportedType(resp'.arg.file))
            => /\ RefusedWith("Invalid file type. Only JPEG, PNG, and WebP images are allowed.")
               /\ MayStore(resp'.op, resp'.arg) => resp'.status = 400
       /\ (resp'.op \in StoreOps /\ TooLarge(resp'.arg.file))
            => /\ RefusedWith("File too large. Maximum size is 5MB.")
               /\ MayStore(resp'.op, resp'.arg) => resp'.status = 400
       /\ (resp'.op \in StoreOps /\ resp'.status = 400)
            => (UnsupportedType(resp'.arg.file) \/ TooLarge(resp'.arg.file))
       /\ files' # files
            => \E s \in Slots :
                  \/ req[s].pc \in {"uci_old_unlink", "uci_except", "ucw_except"}
                  \/ /\ req[s].pc \in {"uci_write", "ucw_write"}
                     /\ ~UnsupportedType(req[s].arg.file) /\ ~TooLarge(req[s].arg.file)
                  \/ /\ resp'.op = "upload_car_image" /\ resp'.status = 200
                     /\ ~UnsupportedType(resp'.arg.file) /\ ~TooLarge(resp'.arg.file)]_vars

\* the seller's update with a file one byte over the limit was refused with 400
C13_Witness ==
    /\ resp.op = "update_car_with_image"
    /\ resp.status = 400
    /\ resp.detail = "File too large. Maximum size is 5MB."
    /\ resp.arg.file.size = max_size + 1
    /\ Owner(resp.arg.tok, resp.arg.car)

\* the update-with-image request r wrote a file and its commit has not taken effect
CommitFailed(r) ==
    /\ r.new # <<>>
    /\ r.arg.car \in DOMAIN cars => cars[r.arg.car].image # UploadsUrl(r.new[1])

(* C14: when the commit of POST /cars/upload or of PUT /cars/{id}/upload with a
   file fails, the step that fails stores nothing, and the request ends with 500
   after removing the file it wrote and nothing else: no listing changes, and
   for the update the listing is as the request loaded it and its old asset is
   in the store if it was. *)
C14_CommitFailureCleanup ==
    [][\A s \in Slots :
          /\ (req[s].pc \in {"ucw_commit", "uci_commit"} /\ req'[s].pc \in {"ucw_except", "uci_except"})
                => UNCHANGED <<cars, nextCar, files>>
          /\ req[s].pc = "ucw_except"
                => /\ resp'.op = "upload_car_with_image" /\ resp'.status = 500
                   /\ req[s].new[1] \notin files'
                   /\ files' = files \ {req[s].new[1]}
                   /\ UNCHANGED <<cars, nextCar>>
          /\ (req[s].pc = "uci_except" /\ CommitFailed(req[s]))
                => /\ resp'.op = "update_car_with_image" /\ resp'.status = 500
                   /\ req[s].new[1] \notin files'
                   /\ files' = files \ {req[s].new[1]}
                   /\ UNCHANGED <<cars, nextCar>>
                   /\ req[s].arg.car \in DOMAIN cars => cars'[req[s].arg.car] = req[s].loaded
                   /\ req[s].old # <<>> => (req[s].old[1] \in files' <=> req[s].old[1] \in files)]_vars

\* an update with a file ended with 500: the listing still references its old file,
\* which is in the store, and the file the request wrote is gone
C14_Witness ==
    /\ resp.op = "update_car_with_image"
    /\ resp.status = 500
    /\ resp.arg.car \in DOMAIN cars
    /\ StoredAsset(cars[resp.arg.car].image)
    /\ cars[resp.arg.car].image.rest # EmptyName
    /\ nextFile > 1
    /\ nextFile - 1 \notin files

\* the update-with-image request r wrote a file and its commit stored the reference to it
CommitTookEffect(r) ==
    /\ r.new # <<>>
    /\ r.arg.car \in DOMAIN cars
    /\ cars[r.arg.car].image = UploadsUrl(r.new[1])

(* C16: a request that wrote a new image file and whose commit took effect does
   not remove that file in any later step: the file is in the store when the
   request ends, whatever its response. *)
C16_NewFileKeptAfterCommit ==
    [][\A s \in Slots :
          (req[s].pc \in UciSteps /\ CommitTookEffect(req[s]) /\ req[s].new[1] \in files)
             => req[s].new[1] \in files']_vars

(***************************************************************************)
(* Listings that name a stored file: two listings, and clients that send  *)
(* the url of an uploaded file as the image of a listing.                  *)
(***************************************************************************)
\* how many listings a behaviour of SpecShare creates
MaxShared == 2

SharedIds == 1..MaxShared

\* the image strings a client can send that name a stored file: the urls the
\* service returned for the files in the upload directory
SharedImages == {UploadsUrl(f) : f \in files}

SharedForms ==
    {[make |-> "Toyota", price |-> 25000, description |-> "Well maintained", image |-> i] :
        i \in SharedImages}

SharedBodies == {[image |-> i] : i \in SharedImages}

NextShare ==
    \/ deliver
    \/ \E e \in Emails : register(1, e, UsernameOf(e), "pw1", "pw1")
    \/ register_commit(1)
    \/ \E tok \in BearerTokens, file \in AuthFiles : upload_car_image(1, tok, file)
    \/ \E tok \in BearerTokens, form \in SharedForms : create_car(1, tok, form)
    \/ \E tok \in BearerTokens, id \in SharedIds, body \in SharedBodies : update_car(1, tok, id, body)
    \/ update_car_commit(1)
    \/ \E tok \in BearerTokens, form \in UploadForms, file \in AuthFiles :
          upload_car_with_image(1, tok, form, file)
    \/ ucw_write(1)
    \/ \E dbok \in BOOLEAN : ucw_commit(1, dbok)
    \/ ucw_except(1)

SpecShare == InitWith([cars |-> MaxShared, files |-> MaxFiles]) /\ [][NextShare]_vars

\* the listings whose image is the stored file f
ReferencedBy(f) == {id \in DOMAIN cars : cars[id].image = UploadsUrl(f)}

(* C15: in every state, no file of the upload store is the image of two
   listings. *)
C15_AssetReferencedOnce ==
    \A f \in files : Cardinality(ReferencedBy(f)) <= 1

(***************************************************************************)
(* Two PUT /cars/{id}/upload requests of the seller served at once: the   *)
(* listing was created with an uploaded image, both requests bring a valid *)
(* file, and the database does not fail.                                   *)
(***************************************************************************)
\* how many files a behaviour of SpecRace writes: the first image and two replacements
MaxRaceFiles == 3

\* a form of PUT /cars/{id}/upload that sends the file only
FileOnlyForms == {[make |-> <<>>, price |-> <<>>, description |-> <<>>, is_sold |-> <<>>]}

NextRace ==
    \/ deliver
    \/ register(1, "a@x.com", "ann", "pw1", "pw1")
    \/ register_commit(1)
    \/ \E form \in UploadForms, file \in AuthFiles : upload_car_with_image(1, OwnerToken, form, file)
    \/ ucw_write(1)
    \/ ucw_commit(1, TRUE)
    \/ \E id \in CarIds, form \in FileOnlyForms, file \in AuthFiles :
          update_car_with_image(FreeWorker, OwnerToken, id, form, file)
    \/ \E s \in Slots : uci_write(s)
    \/ \E s \in Slots : uci_commit(s, TRUE)
    \/ \E s \in Slots : uci_old_exists(s)
    \/ \E s \in Slots : uci_old_unlink(s)
    \/ \E s \in Slots : uci_return(s)
    \/ \E s \in Slots : uci_except(s)

SpecRace == InitWith([cars |-> MaxCars, files |-> MaxRaceFiles]) /\ [][NextRace]_vars

(* C17: however two image-replacing updates of one listing by its seller
   interleave, each of them succeeds, and once no update is being served the
   image of the listing is a file of the upload store. *)
C17_ConcurrentReplacement ==
    [][/\ (resp'.op = "update_car_with_image" /\ Owner(resp'.arg.tok, resp'.arg.car))
            => resp'.status = 200
       /\ (\A s \in Slots : req'[s] = Idle)
            => \A id \in DOMAIN cars' :
                  cars'[id].image.uploads /\ cars'[id].image.rest \in files']_vars

\* the bearer tokens of the requests that take a step: the one answered in the
\* step and the ones in flight
ActingTokens ==
    (IF "tok" \in DOMAIN resp'.arg THEN {resp'.arg.tok} ELSE {})
    \cup {req[s].arg.tok : s \in {w \in Slots : req[w] # Idle /\ "tok" \in DOMAIN req[w].arg}}

(* C18: a step of a request made by an authenticated user who is not the seller
   of a listing does not take the file that listing's image references out of
   the upload store. *)
C18_NonOwnerCannotRemoveAsset ==
    [][\A id \in DOMAIN cars :
          (/\ StoredAsset(cars[id].image)
           /\ ActingTokens # {}
           /\ \A tok \in ActingTokens : NonOwner(tok, id))
             => cars[id].image.rest \in files']_vars

====
